---- MODULE Spec2Model ----
(***************************************************************************)
(* A model of AI_Travel_Agent.py: the attraction extraction of             *)
(* travel_guide, calculate_total_cost, generate_summary, the pipeline of   *)
(* main_travel_planner and the control flow of calamity_forecast.          *)
(*                                                                         *)
(* Python strings that the code inspects are sequences of one-character    *)
(* strings; strings the code only passes around or returns as fixed        *)
(* literals are TLA+ strings.  A Python object whose type varies at run    *)
(* time (a JSON value, a field that is either data or an error string) is  *)
(* a record tagged with its type in the field t.                           *)
(***************************************************************************)
EXTENDS Integers, Sequences, FiniteSets, TLC

VARIABLES
    pc,            \* the position of the running entry point
    city,          \* parameter city
    days,          \* parameter days
    full_response, \* travel_guide: full_response
    guide,         \* main_travel_planner: guide (the dict travel_guide returns)
    attractions,   \* main_travel_planner / generate_summary: attractions
    itinerary,     \* main_travel_planner: itinerary; calculate_total_cost: itinerary_text
    hotel_data,    \* main_travel_planner: hotel_data; generate_summary: hotel_info
    total_cost,    \* main_travel_planner / calculate_total_cost: total_cost
    summary,       \* main_travel_planner: summary
    result,        \* what the entry point gave its caller: a return value or a raised exception
    calls,         \* the requests issued so far, in order, each with the response it got
    dates,         \* calamity_forecast: <<start_date, end_date>>
    geo_data,      \* calamity_forecast: geo_data
    lat,           \* calamity_forecast: lat
    lon,           \* calamity_forecast: lon
    weather_data,  \* calamity_forecast: weather_data
    earthquakes,   \* calamity_forecast: earthquakes
    gdacs_alerts   \* calamity_forecast: gdacs_alerts

vars == <<pc, city, days, full_response, guide, attractions, itinerary, hotel_data, total_cost,
          summary, result, calls, dates, geo_data, lat, lon, weather_data,
          earthquakes, gdacs_alerts>>

forecastVars == <<dates, geo_data, lat, lon, weather_data, earthquakes, gdacs_alerts>>

-----------------------------------------------------------------------------
(* Bounds of the model.                                                    *)

\* the longest guide text, in segments of GuideSegs
MaxGuideSegs == 4
\* the longest itinerary text, in segments of CostSegs
MaxCostSegs == 5
\* the longest hotel text, in segments of HotelSegs
MaxHotelSegs == 3
\* the largest day count of a request
MaxDays == 12
\* the most features of an earthquake catalog answer
MaxFeatures == 2
\* the most entries of an alert feed
MaxEntries == 2

-----------------------------------------------------------------------------
(* Characters and strings.                                                 *)

Upper == {"A", "B", "C", "D", "E", "F", "G", "H", "I", "J", "K", "L", "M",
          "N", "O", "P", "Q", "R", "S", "T", "U", "V", "W", "X", "Y", "Z"}

Digit == {"0", "1", "2", "3", "4", "5", "6", "7", "8", "9"}

\* the characters str.strip() and str.split() treat as whitespace
White == {" ", "\n", "\t", "\r"}

\* the characters str.splitlines() breaks a line at
LineBreak == {"\n", "\r"}

Rupee == "₹"

Dollar == "$"

Min(a, b) == IF a <= b THEN a ELSE b

\* s[:n]
Take(s, n) == SubSeq(s, 1, Min(n, Len(s)))

\* s[i-1:], the part of s from position i on
From(s, i) == SubSeq(s, i, Len(s))

\* all sequences over S of length at most n
SeqsUpTo(S, n) == UNION {[1..k -> S] : k \in 0..n}

RECURSIVE Flatten(_)
\* "".join(segs)
Flatten(segs) == IF segs = <<>> THEN <<>> ELSE Head(segs) \o Flatten(Tail(segs))

\* s.startswith(p) at position i: p occurs in s at position i
OccursAt(s, p, i) ==
    /\ i >= 1
    /\ i + Len(p) - 1 <= Len(s)
    /\ \A k \in 1..Len(p) : s[i + k - 1] = p[k]

\* p in s
Contains(s, p) == \E i \in 1..(Len(s) + 1) : OccursAt(s, p, i)

RECURSIVE LStrip(_)
LStrip(s) == IF s # <<>> /\ Head(s) \in White THEN LStrip(Tail(s)) ELSE s

RECURSIVE RStrip(_)
RStrip(s) ==
    IF s # <<>> /\ s[Len(s)] \in White THEN RStrip(SubSeq(s, 1, Len(s) - 1)) ELSE s

\* s.strip()
Strip(s) == RStrip(LStrip(s))

RECURSIVE JoinWith(_, _)
\* sep.join(items)
JoinWith(sep, items) ==
    IF items = <<>> THEN <<>>
    ELSE IF Len(items) = 1 THEN items[1]
    ELSE items[1] \o sep \o JoinWith(sep, Tail(items))

DigitVal(c) ==
    CASE c = "0" -> 0 [] c = "1" -> 1 [] c = "2" -> 2 [] c = "3" -> 3 [] c = "4" -> 4
      [] c = "5" -> 5 [] c = "6" -> 6 [] c = "7" -> 7 [] c = "8" -> 8 [] c = "9" -> 9

DigitChar(d) == <<"0", "1", "2", "3", "4", "5", "6", "7", "8", "9">>[d + 1]

RECURSIVE IntOfDigits(_)
\* int(s) for a string s of decimal digits
IntOfDigits(s) ==
    IF s = <<>> THEN 0
    ELSE 10 * IntOfDigits(SubSeq(s, 1, Len(s) - 1)) + DigitVal(s[Len(s)])

RECURSIVE StrOfNat(_)
StrOfNat(n) == IF n < 10 THEN <<DigitChar(n)>> ELSE StrOfNat(n \div 10) \o <<DigitChar(n % 10)>>

\* str(n), what an f-string puts for {n}
StrOfInt(n) == IF n < 0 THEN <<"-">> \o StrOfNat(0 - n) ELSE StrOfNat(n)

-----------------------------------------------------------------------------
(* travel_guide: the extraction of attraction names from the guide text.   *)

\* The class [\\w\\s,'&\\-] of attraction_pattern.  The pattern is a raw string, so
\* "\\" in it is an escaped backslash: the class holds the backslash and the
\* letters w and s themselves, not the classes \w and \s.
NameClass == {"\\", "w", "s", ",", "'", "&", "-"}

\* Where the group (?:1\\.|2\\.|3\\.|\\-) ends when it matches at position i of t, or
\* 0: a digit 1..3, a backslash and any character but a newline, or a backslash
\* and a dash.
MarkerEnd(t, i) ==
    IF i + 2 <= Len(t) /\ t[i] \in {"1", "2", "3"} /\ t[i + 1] = "\\" /\ t[i + 2] # "\n"
    THEN i + 3
    ELSE IF i + 1 <= Len(t) /\ t[i] = "\\" /\ t[i + 1] = "-"
    THEN i + 2
    ELSE 0

RECURSIVE RunEnd(_, _, _)
\* the first position from i on whose character is not in class (Len(t) + 1 if none)
RunEnd(t, i, class) ==
    IF i <= Len(t) /\ t[i] \in class THEN RunEnd(t, i + 1, class) ELSE i

\* The match of attraction_pattern at position i of t: [ok, from, to], the captured
\* group being t[from..to-1].  After the marker come \\s* (a backslash, then any
\* number of the letter s) and the group ([A-Z][...]+).
MatchAt(t, i) ==
    LET m == MarkerEnd(t, i)
        k == RunEnd(t, m + 1, {"s"})
        e == RunEnd(t, k + 1, NameClass)
    IN  IF /\ m # 0
           /\ m <= Len(t)
           /\ t[m] = "\\"
           /\ k <= Len(t)
           /\ t[k] \in Upper
           /\ e > k + 1
        THEN [ok |-> TRUE, from |-> k, to |-> e]
        ELSE [ok |-> FALSE, from |-> 0, to |-> 0]

RECURSIVE FindAll(_, _)
\* re.findall(attraction_pattern, t) from position i on: the captured groups of
\* the non-overlapping matches, left to right
FindAll(t, i) ==
    IF i > Len(t) THEN <<>>
    ELSE LET m == MatchAt(t, i)
         IN  IF m.ok THEN <<SubSeq(t, m.from, m.to - 1)>> \o FindAll(t, m.to)
             ELSE FindAll(t, i + 1)

RECURSIVE Qualifying(_)
\* [a.strip() for a in attraction_pattern if len(a.strip()) > 3]
Qualifying(ms) ==
    IF ms = <<>> THEN <<>>
    ELSE IF Len(Strip(Head(ms))) > 3 THEN <<Strip(Head(ms))>> \o Qualifying(Tail(ms))
    ELSE Qualifying(Tail(ms))

RECURSIVE DedupFrom(_, _)
DedupFrom(xs, seen) ==
    IF xs = <<>> THEN <<>>
    ELSE IF Head(xs) \in seen THEN DedupFrom(Tail(xs), seen)
    ELSE <<Head(xs)>> \o DedupFrom(Tail(xs), seen \cup {Head(xs)})

\* a list(...) without dict.fromkeys: repeated names are kept
Dedup_Kept(xs) == xs

\* list(dict.fromkeys(xs))
Dedup(xs) == DedupFrom(xs, {})

\* attractions, line 28
Attractions(text) == Dedup(Qualifying(FindAll(text, 1)))

\* the dict travel_guide returns
TravelGuide(c, text) ==
    [city |-> c,
     attractions |-> Take(Attractions(text), 3),
     full_guide |-> text]

-----------------------------------------------------------------------------
(* calculate_total_cost.                                                   *)

EstimatedCost == <<"E", "s", "t", "i", "m", "a", "t", "e", "d", " ", "c", "o", "s", "t">>

RECURSIVE SplitLines(_)
\* s.splitlines(): the lines of s without their line breaks, "\r\n" being one
\* break; a break at the end of s opens no further line
SplitLines(s) ==
    IF s = <<>> THEN <<>>
    ELSE LET e == RunEnd(s, 1, {c \in {s[k] : k \in 1..Len(s)} : c \notin LineBreak})
             n == IF e > Len(s) THEN e
                  ELSE IF s[e] = "\r" /\ e + 1 <= Len(s) /\ s[e + 1] = "\n" THEN e + 2
                  ELSE e + 1
         IN  <<SubSeq(s, 1, e - 1)>> \o SplitLines(From(s, n))

RECURSIVE CostLines(_)
\* cost_lines, line 174: the lines that contain "Estimated cost"
CostLines(lines) ==
    IF lines = <<>> THEN <<>>
    ELSE IF Contains(Head(lines), EstimatedCost) THEN <<Head(lines)>> \o CostLines(Tail(lines))
    ELSE CostLines(Tail(lines))

\* a class that matches the rupee sign alone
CurrencySymbol_RupeeOnly == {Rupee}

\* the characters the class [₹\$] of line 177 matches
CurrencySymbol == {Rupee, Dollar}

RECURSIVE SearchAmount(_, _)
\* re.search(r"[₹\$](\d+)", line) from position i on: [ok, digits], digits
\* being group 1 of the leftmost match
SearchAmount(line, i) ==
    IF i >= Len(line) THEN [ok |-> FALSE, digits |-> <<>>]
    ELSE IF line[i] \in CurrencySymbol /\ line[i + 1] \in Digit
    THEN [ok |-> TRUE, digits |-> SubSeq(line, i + 1, RunEnd(line, i + 1, Digit) - 1)]
    ELSE SearchAmount(line, i + 1)

RECURSIVE SumCosts(_, _)
\* the loop of lines 176-179 over cost_lines, total_cost being the running total
SumCosts(cost_lines, total) ==
    IF cost_lines = <<>> THEN total
    ELSE LET match == SearchAmount(Head(cost_lines), 1)
         IN  SumCosts(Tail(cost_lines),
                      IF match.ok THEN total + IntOfDigits(match.digits) ELSE total)

calculate_total_cost(itinerary_text) == SumCosts(CostLines(SplitLines(itinerary_text)), 0)

-----------------------------------------------------------------------------
(* json.loads, for the texts generate_summary gives it: arrays, objects,   *)
(* strings with the escapes \" \\ \/, integers and null, true, false.      *)
(* A value is a record tagged with its Python type.                        *)

JStr(chars) == [t |-> "str", v |-> chars]

JInt(n) == [t |-> "int", v |-> n]

JNone == [t |-> "NoneType", v |-> <<>>]

JBool(b) == [t |-> "bool", v |-> b]

JList(items) == [t |-> "list", v |-> items]

\* a dict as the sequence of its <<key, value>> members in the order parsed
JDict(members) == [t |-> "dict", v |-> members]

\* JSONDecodeError
NoParse == [ok |-> FALSE, val |-> JNone, next |-> 0]

Parsed(val, next) == [ok |-> TRUE, val |-> val, next |-> next]

\* the whitespace json skips
JsonWhite == {" ", "\t", "\n", "\r"}

SkipWs(s, i) == RunEnd(s, i, JsonWhite)

RECURSIVE ScanString(_, _, _)
\* the string whose opening quote is before position i
ScanString(s, i, acc) ==
    IF i > Len(s) THEN NoParse
    ELSE IF s[i] = "\"" THEN Parsed(JStr(acc), i + 1)
    ELSE IF s[i] = "\\"
    THEN IF i + 1 <= Len(s) /\ s[i + 1] \in {"\"", "\\", "/"}
         THEN ScanString(s, i + 2, Append(acc, s[i + 1]))
         ELSE NoParse
    ELSE IF s[i] \in {"\n", "\t", "\r"} THEN NoParse
    ELSE ScanString(s, i + 1, Append(acc, s[i]))

\* the integer at position i: an optional minus, then 0 or a run of digits that
\* does not start with 0
ScanNumber(s, i) ==
    LET d == IF s[i] = "-" THEN i + 1 ELSE i
        e == IF d <= Len(s) /\ s[d] = "0" THEN d + 1 ELSE RunEnd(s, d, Digit)
    IN  IF e = d THEN NoParse
        ELSE Parsed(JInt(IF d = i THEN IntOfDigits(SubSeq(s, d, e - 1))
                                  ELSE 0 - IntOfDigits(SubSeq(s, d, e - 1))), e)

RECURSIVE ParseValue(_, _)
RECURSIVE ParseArrayItems(_, _, _)
RECURSIVE ParseObjectItems(_, _, _)

\* the JSON value that starts at position i of s
ParseValue(s, i) ==
    IF i > Len(s) THEN NoParse
    ELSE IF s[i] = "\"" THEN ScanString(s, i + 1, <<>>)
    ELSE IF s[i] = "["
    THEN LET j == SkipWs(s, i + 1)
         IN  IF j <= Len(s) /\ s[j] = "]" THEN Parsed(JList(<<>>), j + 1)
             ELSE ParseArrayItems(s, j, <<>>)
    ELSE IF s[i] = "{"
    THEN LET j == SkipWs(s, i + 1)
         IN  IF j <= Len(s) /\ s[j] = "}" THEN Parsed(JDict(<<>>), j + 1)
             ELSE ParseObjectItems(s, j, <<>>)
    ELSE IF OccursAt(s, <<"n", "u", "l", "l">>, i) THEN Parsed(JNone, i + 4)
    ELSE IF OccursAt(s, <<"t", "r", "u", "e">>, i) THEN Parsed(JBool(TRUE), i + 4)
    ELSE IF OccursAt(s, <<"f", "a", "l", "s", "e">>, i) THEN Parsed(JBool(FALSE), i + 5)
    ELSE IF s[i] \in Digit \cup {"-"} THEN ScanNumber(s, i)
    ELSE NoParse

\* the items of an array from position i on, a value being due at i
ParseArrayItems(s, i, acc) ==
    LET v == ParseValue(s, i)
        j == SkipWs(s, v.next)
    IN  IF ~v.ok \/ j > Len(s) THEN NoParse
        ELSE IF s[j] = "]" THEN Parsed(JList(Append(acc, v.val)), j + 1)
        ELSE IF s[j] = "," THEN ParseArrayItems(s, SkipWs(s, j + 1), Append(acc, v.val))
        ELSE NoParse

\* the members of an object from position i on, a key being due at i
ParseObjectItems(s, i, acc) ==
    IF i > Len(s) \/ s[i] # "\"" THEN NoParse
    ELSE LET key == ScanString(s, i + 1, <<>>)
             c == SkipWs(s, key.next)
             v == ParseValue(s, SkipWs(s, c + 1))
             j == SkipWs(s, v.next)
             members == Append(acc, <<key.val.v, v.val>>)
         IN  IF ~key.ok \/ c > Len(s) \/ s[c] # ":" THEN NoParse
             ELSE IF ~v.ok \/ j > Len(s) THEN NoParse
             ELSE IF s[j] = "}" THEN Parsed(JDict(members), j + 1)
             ELSE IF s[j] = "," THEN ParseObjectItems(s, SkipWs(s, j + 1), members)
             ELSE NoParse

\* json.loads(s): one value, whitespace around it, nothing after it
JsonLoads(s) ==
    LET v == ParseValue(s, SkipWs(s, 1))
    IN  IF v.ok /\ SkipWs(s, v.next) = Len(s) + 1 THEN v ELSE NoParse

\* the positions of the members of a dict that have the key
KeyAt(members, key) == {i \in 1..Len(members) : members[i][1] = key}

\* key in d
HasKey(d, key) == KeyAt(d.v, key) # {}

\* d[key]: of members with the same key the last one parsed is kept
Lookup(d, key) ==
    LET at == KeyAt(d.v, key)
    IN  d.v[CHOOSE i \in at : \A j \in at : j <= i][2]

RECURSIVE PyRepr(_)
RECURSIVE ReprItems(_)
RECURSIVE ReprMembers(_, _)

\* repr(v)
PyRepr(v) ==
    CASE v.t = "str" -> <<"'">> \o v.v \o <<"'">>
      [] v.t = "int" -> StrOfInt(v.v)
      [] v.t = "NoneType" -> <<"N", "o", "n", "e">>
      [] v.t = "bool" -> IF v.v THEN <<"T", "r", "u", "e">> ELSE <<"F", "a", "l", "s", "e">>
      [] v.t = "list" -> <<"[">> \o JoinWith(<<",", " ">>, ReprItems(v.v)) \o <<"]">>
      [] v.t = "dict" -> <<"{">> \o JoinWith(<<",", " ">>, ReprMembers(v, 1)) \o <<"}">>

ReprItems(items) ==
    IF items = <<>> THEN <<>> ELSE <<PyRepr(Head(items))>> \o ReprItems(Tail(items))

\* the members of the dict d from position i on, each key once, where it was
\* first parsed, with the value d[key]
ReprMembers(d, i) ==
    IF i > Len(d.v) THEN <<>>
    ELSE IF \E j \in 1..(i - 1) : d.v[j][1] = d.v[i][1] THEN ReprMembers(d, i + 1)
    ELSE <<PyRepr(JStr(d.v[i][1])) \o <<":", " ">> \o PyRepr(Lookup(d, d.v[i][1]))>>
            \o ReprMembers(d, i + 1)

\* str(v), what an f-string puts for {v}
PyStr(v) == IF v.t = "str" THEN v.v ELSE PyRepr(v)

-----------------------------------------------------------------------------
(* generate_summary.                                                       *)

HotelDataUnavailable ==
    <<"H", "o", "t", "e", "l", " ", "d", "a", "t", "a", " ",
      "u", "n", "a", "v", "a", "i", "l", "a", "b", "l", "e">>

NotAvailable == <<"N", "/", "A">>

\* the hotel name a first entry without the key 'name' would get from
\* hotel_data[0].get('name', "N/A")
TopHotel_Default(hotel_info) ==
    LET text == Strip(hotel_info)
        loaded == JsonLoads(text)
    IN  IF ~OccursAt(text, <<"[">>, 1) \/ ~loaded.ok THEN JStr(HotelDataUnavailable)
        ELSE IF loaded.val.v = <<>> THEN JStr(NotAvailable)
        ELSE IF loaded.val.v[1].t = "dict" /\ HasKey(loaded.val.v[1], <<"n", "a", "m", "e">>)
        THEN Lookup(loaded.val.v[1], <<"n", "a", "m", "e">>)
        ELSE JStr(NotAvailable)

\* top_hotel, lines 184-191.  The except clause catches the ValueError of line
\* 187, the JSONDecodeError of line 188 and the TypeError or KeyError of line 189.
TopHotel(hotel_info) ==
    LET text == Strip(hotel_info)
        hotel_data_ == JsonLoads(text)
    IN  IF ~OccursAt(text, <<"[">>, 1) THEN JStr(HotelDataUnavailable)
        ELSE IF ~hotel_data_.ok THEN JStr(HotelDataUnavailable)
        ELSE IF hotel_data_.val.v = <<>> THEN JStr(NotAvailable)
        ELSE IF hotel_data_.val.v[1].t # "dict" THEN JStr(HotelDataUnavailable)
        ELSE IF ~HasKey(hotel_data_.val.v[1], <<"n", "a", "m", "e">>)
        THEN JStr(HotelDataUnavailable)
        ELSE Lookup(hotel_data_.val.v[1], <<"n", "a", "m", "e">>)

\* the f-string of lines 193-200, before strip()
SummaryText(c, d, as, top_hotel, total) ==
    <<"\n", "T", "r", "i", "p", " ", "S", "u", "m", "m", "a", "r", "y", ":",
      "\n", "C", "i", "t", "y", ":", " ">> \o c
    \o <<"\n", "D", "u", "r", "a", "t", "i", "o", "n", ":", " ">> \o StrOfInt(d)
    \o <<" ", "d", "a", "y", "s", "\n", "T", "o", "p", " ",
         "A", "t", "t", "r", "a", "c", "t", "i", "o", "n", "s", ":", " ">>
    \o JoinWith(<<",", " ">>, as)
    \o <<"\n", "R", "e", "c", "o", "m", "m", "e", "n", "d", "e", "d", " ",
         "H", "o", "t", "e", "l", ":", " ">> \o PyStr(top_hotel)
    \o <<"\n", "E", "s", "t", "i", "m", "a", "t", "e", "d", " ", "T", "o", "t", "a", "l", " ",
         "T", "r", "i", "p", " ", "C", "o", "s", "t", ":", " ", Rupee>> \o StrOfInt(total)
    \o <<"\n">>

generate_summary(c, d, as, hotel_info, total) ==
    Strip(SummaryText(c, d, as, TopHotel(hotel_info), total))

-----------------------------------------------------------------------------
(* Inputs: the request and the texts a generation backend may answer.      *)

Cities == {<<"P", "a", "r", "i", "s">>, <<"D", "e", "l", "h", "i">>}

DaysSet == {1, MaxDays}

\* Pieces of guide text.  The first four each hold one list marker as the pattern
\* reads it and a name of more than 3 characters, the fifth a name of 2
\* characters; the rest separate them.
GuideSegs ==
    {<<"1", "\\", ".", "\\", "A", "w", "w", "w">>,
     <<"2", "\\", " ", "\\", "B", "w", ",", "s">>,
     <<"3", "\\", "-", "\\", "s", "s", "C", "&", "'", "-">>,
     <<"\\", "-", "\\", "D", "w", "w", "w">>,
     <<"1", "\\", "x", "\\", "E", "s">>,
     <<"\n">>}

Names ==
    {<<"R", "e", "d", " ", "F", "o", "r", "t">>,
     <<"I", "n", "d", "i", "a", " ", "G", "a", "t", "e">>,
     <<"L", "o", "t", "u", "s", " ", "T", "e", "m", "p", "l", "e">>}

\* the line "<n>. <name> - ..."
ListLine(n, name) == <<n, ".", " ">> \o name \o <<" ", "-", " ", ".", ".", ".">>

\* the numbered list "1. a - ...", "2. b - ...", "3. c - ...", one item a line
NumberedList(a, b, c) ==
    ListLine("1", a) \o <<"\n">> \o ListLine("2", b) \o <<"\n">> \o ListLine("3", c)

NumberedTexts ==
    {NumberedList(n[1], n[2], n[3]) :
        n \in {x \in [1..3 -> Names] : Cardinality({x[1], x[2], x[3]}) = 3}}

\* the texts the guide backend answers with
GuideTexts ==
    {Flatten(segs) : segs \in SeqsUpTo(GuideSegs, MaxGuideSegs)} \cup NumberedTexts

NoGuide == [city |-> <<>>, attractions |-> <<>>, full_guide |-> <<>>]

Pending == [kind |-> "pending"]

Returned(v) == [kind |-> "returned", value |-> v]

\* an exception nothing in the entry point catches
Raised(e) == [kind |-> "raised", value |-> e]

\* PromptTemplate.format: the template with its fields filled in
Prompt(template, fields) == [template |-> template, fields |-> fields]

\* a request and the response it got
Call(to, request, response) == [to |-> to, request |-> request, response |-> response]

Failed == [ok |-> FALSE]

Answer(text) == [ok |-> TRUE, text |-> text]

ForecastUnset ==
    /\ dates = <<"", "">>
    /\ geo_data = <<>>
    /\ lat = 0
    /\ lon = 0
    /\ weather_data = <<>>
    /\ earthquakes = <<>>
    /\ gdacs_alerts = <<>>

-----------------------------------------------------------------------------
(* travel_guide as an entry point.                                         *)

InitGuide ==
    /\ pc = "travel_guide"
    /\ city \in Cities
    /\ days = 0
    /\ full_response = <<>>
    /\ guide = NoGuide
    /\ attractions = <<>>
    /\ itinerary = <<>>
    /\ hotel_data = <<>>
    /\ total_cost = 0
    /\ summary = <<>>
    /\ result = Pending
    /\ calls = <<>>
    /\ ForecastUnset

\* lines 25-33: the backend answers and the attractions are extracted
GuideReturns ==
    /\ pc = "travel_guide"
    /\ \E text \in GuideTexts :
        /\ calls' = Append(calls, Call("model", Prompt("travel_prompt", [city |-> city]), Answer(text)))
        /\ full_response' = text
        /\ guide' = TravelGuide(city, text)
        /\ result' = Returned(guide')
    /\ pc' = "done"
    /\ UNCHANGED <<city, days, attractions, itinerary, hotel_data, total_cost, summary>>
    /\ UNCHANGED forecastVars

\* line 26: model.invoke raises, and travel_guide catches nothing
GuideRaises ==
    /\ pc = "travel_guide"
    /\ calls' = Append(calls, Call("model", Prompt("travel_prompt", [city |-> city]), Failed))
    /\ result' = Raised("model.invoke")
    /\ pc' = "done"
    /\ UNCHANGED <<city, days, full_response, guide, attractions, itinerary, hotel_data, total_cost, summary>>
    /\ UNCHANGED forecastVars

NextGuide == GuideReturns \/ GuideRaises

SpecGuide == InitGuide /\ [][NextGuide]_vars

-----------------------------------------------------------------------------
(* calculate_total_cost as an entry point.                                 *)

\* Pieces of itinerary text: the marker phrase, amounts with either symbol, a
\* bare symbol, a bare number and a line break.
CostSegs ==
    {EstimatedCost,
     <<Rupee, "5">>,
     <<Dollar, "1", "2">>,
     <<Rupee>>,
     <<"7">>,
     <<"\n">>}

\* the texts the itinerary backend answers with
CostTexts == {Flatten(segs) : segs \in SeqsUpTo(CostSegs, MaxCostSegs)}

InitCost ==
    /\ pc = "calculate_total_cost"
    /\ city = <<>>
    /\ days = 0
    /\ full_response = <<>>
    /\ guide = NoGuide
    /\ attractions = <<>>
    /\ itinerary \in CostTexts
    /\ hotel_data = <<>>
    /\ total_cost = 0
    /\ summary = <<>>
    /\ result = Pending
    /\ calls = <<>>
    /\ ForecastUnset

\* lines 173-180
CalculateTotalCost ==
    /\ pc = "calculate_total_cost"
    /\ total_cost' = calculate_total_cost(itinerary)
    /\ result' = Returned(total_cost')
    /\ pc' = "done"
    /\ UNCHANGED <<city, days, full_response, guide, attractions, itinerary, hotel_data, summary, calls>>
    /\ UNCHANGED forecastVars

NextCost == CalculateTotalCost

SpecCost == InitCost /\ [][NextCost]_vars

-----------------------------------------------------------------------------
(* Properties of travel_guide, under SpecGuide.                            *)

GuideDone == pc = "done" /\ result.kind = "returned"

\* C5: for a guide text made of the lines "1. A - ...", "2. B - ...", "3. C - ..."
\* with distinct names A, B, C (uppercase initial, more than 3 characters),
\* travel_guide returns exactly the attractions [A, B, C].
C5_NumberedListNames ==
    GuideDone =>
        \A a, b, c \in Names :
            (Cardinality({a, b, c}) = 3 /\ guide.full_guide = NumberedList(a, b, c))
                => guide.attractions = <<a, b, c>>

\* the matches of the pattern in the guide text, each trimmed
C6_Matches ==
    LET ms == FindAll(guide.full_guide, 1)
    IN  [i \in 1..Len(ms) |-> Strip(ms[i])]

\* the positions of the matches that qualify: longer than 3 characters
C6_Qualifies == {i \in DOMAIN C6_Matches : Len(C6_Matches[i]) > 3}

\* where the qualifying match x is first seen
C6_FirstSeen(x) ==
    CHOOSE i \in C6_Qualifies :
        C6_Matches[i] = x /\ \A j \in C6_Qualifies : C6_Matches[j] = x => i <= j

\* C6: the attractions travel_guide returns are at most 3, hold no duplicate, are
\* trimmed strings longer than 3 characters, are the first distinct qualifying
\* matches in first-seen order with none skipped, and are fewer than 3 when
\* fewer than 3 matches qualify (the list is never padded).
C6_AttractionsShape ==
    GuideDone =>
        LET as == guide.attractions
            n == Len(as)
        IN  /\ n <= 3
            /\ \A i \in 1..n :
                /\ Len(as[i]) > 3
                /\ as[i][1] \notin White
                /\ as[i][Len(as[i])] \notin White
                /\ \E j \in C6_Qualifies : C6_Matches[j] = as[i]
            /\ \A i, j \in 1..n :
                i < j => as[i] # as[j] /\ C6_FirstSeen(as[i]) < C6_FirstSeen(as[j])
            /\ \A j \in C6_Qualifies :
                (\A i \in 1..n : as[i] # C6_Matches[j])
                    => n = 3 /\ C6_FirstSeen(as[3]) < j
            /\ Cardinality(C6_Qualifies) < 3 => n < 3

\* a guide text with more than 3 distinct qualifying matches: the list is cut
\* to the first 3
C6_Witness ==
    /\ GuideDone
    /\ Len(guide.attractions) = 3
    /\ Cardinality({C6_Matches[i] : i \in C6_Qualifies}) > 3

-----------------------------------------------------------------------------
(* Properties of calculate_total_cost, under SpecCost.                     *)

\* where the non-empty lines of s start
C4_LineStarts(s) ==
    {a \in 1..Len(s) : s[a] \notin LineBreak /\ (a = 1 \/ s[a - 1] \in LineBreak)}

\* where the line that starts at a ends
C4_LineEnd(s, a) ==
    CHOOSE b \in a..Len(s) :
        /\ b = Len(s) \/ s[b + 1] \in LineBreak
        /\ \A k \in a..b : s[k] \notin LineBreak

C4_HasMarker(s, a, b) == \E i \in a..(b - Len(EstimatedCost) + 1) : OccursAt(s, EstimatedCost, i)

RECURSIVE C4_Pow10(_)
C4_Pow10(k) == IF k = 0 THEN 1 ELSE 10 * C4_Pow10(k - 1)

RECURSIVE C4_Decimal(_, _, _)
\* the number the digits s[a..e] write
C4_Decimal(s, a, e) ==
    IF a > e THEN 0 ELSE DigitVal(s[a]) * C4_Pow10(e - a) + C4_Decimal(s, a + 1, e)

\* the first integer that immediately follows a currency symbol on the line
\* s[a..b], 0 when there is none
C4_FirstAmount(s, a, b) ==
    LET at == {i \in a..(b - 1) : s[i] \in {Rupee, Dollar} /\ s[i + 1] \in Digit}
    IN  IF at = {} THEN 0
        ELSE LET i == CHOOSE i \in at : \A j \in at : i <= j
                 e == CHOOSE e \in (i + 1)..b :
                        /\ \A k \in (i + 1)..e : s[k] \in Digit
                        /\ e = b \/ s[e + 1] \notin Digit
             IN  C4_Decimal(s, i + 1, e)

RECURSIVE C4_SumOver(_, _)
\* the sum, over the lines of s that start in S and contain the marker, of the
\* line's first amount
C4_SumOver(S, s) ==
    IF S = {} THEN 0
    ELSE LET a == CHOOSE a \in S : TRUE
             b == C4_LineEnd(s, a)
         IN  (IF C4_HasMarker(s, a, b) THEN C4_FirstAmount(s, a, b) ELSE 0)
                + C4_SumOver(S \ {a}, s)

\* s with the rupee and the dollar signs exchanged
C4_Swap(s) ==
    [i \in 1..Len(s) |-> IF s[i] = Rupee THEN Dollar ELSE IF s[i] = Dollar THEN Rupee ELSE s[i]]

\* C4: calculate_total_cost returns the sum, over the lines that contain
\* "Estimated cost", of the first integer immediately after a currency symbol on
\* the line (0 for a marker line without one; other lines count nothing); the
\* result is the same with the currency symbols exchanged, and is 0 when no line
\* holds the marker.
C4_TotalIsSumOfFirstAmounts ==
    pc = "done" =>
        /\ total_cost = C4_SumOver(C4_LineStarts(itinerary), itinerary)
        /\ calculate_total_cost(C4_Swap(itinerary)) = total_cost
        /\ ~Contains(itinerary, EstimatedCost) => total_cost = 0

\* two marker lines, one amount in rupees and one in dollars, summed
C4_Witness ==
    /\ pc = "done"
    /\ total_cost = 17
    /\ Len(CostLines(SplitLines(itinerary))) = 2
    /\ Contains(itinerary, <<Rupee, "5">>)
    /\ Contains(itinerary, <<Dollar, "1", "2">>)

-----------------------------------------------------------------------------
(* generate_summary as an entry point.                                     *)

\* Pieces of hotel text: brackets, a record with a name, a record without one,
\* a string, prose, a space and a comma.
HotelSegs ==
    {<<"[">>,
     <<"]">>,
     <<"{", "\"", "n", "a", "m", "e", "\"", ":", " ", "\"", "R", "i", "t", "z", "\"", "}">>,
     <<"{", "\"", "c", "o", "s", "t", "\"", ":", " ", "5", "}">>,
     <<"\"", "R", "i", "t", "z", "\"">>,
     <<"H", "o", "t", "e", "l", "s">>,
     <<" ">>,
     <<",">>}

\* the texts the hotel backend answers with
HotelTexts == {Flatten(segs) : segs \in SeqsUpTo(HotelSegs, MaxHotelSegs)}

\* attraction lists generate_summary is given
AttractionLists ==
    {<<>>,
     <<<<"R", "e", "d", " ", "F", "o", "r", "t">>,
       <<"I", "n", "d", "i", "a", " ", "G", "a", "t", "e">>>>}

InitSummary ==
    /\ pc = "generate_summary"
    /\ city \in Cities
    /\ days \in DaysSet
    /\ full_response = <<>>
    /\ guide = NoGuide
    /\ attractions \in AttractionLists
    /\ itinerary = <<>>
    /\ hotel_data \in HotelTexts
    /\ total_cost \in {0, 700}
    /\ summary = <<>>
    /\ result = Pending
    /\ calls = <<>>
    /\ ForecastUnset

\* lines 183-201
GenerateSummary ==
    /\ pc = "generate_summary"
    /\ summary' = generate_summary(city, days, attractions, hotel_data, total_cost)
    /\ result' = Returned(summary')
    /\ pc' = "done"
    /\ UNCHANGED <<city, days, full_response, guide, attractions, itinerary, hotel_data, total_cost, calls>>
    /\ UNCHANGED forecastVars

NextSummary == GenerateSummary

SpecSummary == InitSummary /\ [][NextSummary]_vars

-----------------------------------------------------------------------------
(* Properties of generate_summary, under SpecSummary.                      *)

\* the hotel text does not give a list of hotel records: after trimming it does
\* not start with a bracket, or it is malformed, or its first entry is no record
\* with a name
C3_NoHotelRecords ==
    LET text == Strip(hotel_data)
        loaded == JsonLoads(text)
    IN  \/ text = <<>>
        \/ text[1] # "["
        \/ ~loaded.ok
        \/ /\ loaded.val.v # <<>>
           /\ \/ loaded.val.v[1].t # "dict"
              \/ \A i \in 1..Len(loaded.val.v[1].v) :
                    loaded.val.v[1].v[i][1] # <<"n", "a", "m", "e">>

C3_Line(label, value) == <<"\n">> \o label \o <<":", " ">> \o value \o <<"\n">>

\* C3: generate_summary never raises because of the hotel text; for a hotel text
\* that gives no list of hotel records (no leading bracket after trimming,
\* malformed, first entry without a name) the recommended hotel is "Hotel data
\* unavailable", and the summary is produced with city, days, attractions and
\* total cost.
C3_HotelFallback ==
    pc = "done" =>
        /\ result.kind = "returned"
        /\ result.value = summary
        /\ C3_NoHotelRecords =>
            Contains(summary, C3_Line(<<"R", "e", "c", "o", "m", "m", "e", "n", "d", "e", "d",
                                        " ", "H", "o", "t", "e", "l">>, HotelDataUnavailable))
        /\ Contains(summary, C3_Line(<<"C", "i", "t", "y">>, city))
        /\ Contains(summary, C3_Line(<<"D", "u", "r", "a", "t", "i", "o", "n">>,
                                     StrOfInt(days) \o <<" ", "d", "a", "y", "s">>))
        /\ Contains(summary, C3_Line(<<"T", "o", "p", " ", "A", "t", "t", "r", "a", "c", "t",
                                        "i", "o", "n", "s">>, JoinWith(<<",", " ">>, attractions)))
        /\ Contains(summary \o <<"\n">>,
                    C3_Line(<<"E", "s", "t", "i", "m", "a", "t", "e", "d", " ", "T", "o", "t",
                              "a", "l", " ", "T", "r", "i", "p", " ", "C", "o", "s", "t">>,
                            <<Rupee>> \o StrOfInt(total_cost)))

\* a summary made from a hotel text that parses as a list whose first entry has
\* no name
C3_Witness ==
    /\ pc = "done"
    /\ OccursAt(Strip(hotel_data), <<"[">>, 1)
    /\ JsonLoads(Strip(hotel_data)).ok
    /\ JsonLoads(Strip(hotel_data)).val.v # <<>>
    /\ C3_NoHotelRecords
    /\ attractions # <<>>

-----------------------------------------------------------------------------
(* main_travel_planner.                                                    *)

\* adventure_sports, line 207
adventure_sports ==
    <<<<"P", "a", "r", "a", "g", "l", "i", "d", "i", "n", "g">>,
      <<"J", "e", "t", " ", "S", "k", "i", "i", "n", "g">>>>

\* a prompt that leaves the attractions of the guide out
ItineraryPrompt_NoAttractions(c, d, as, sports) ==
    Prompt("itinerary_prompt",
           [city |-> c,
            days |-> d,
            attractions |-> <<>>,
            adventure_sports |-> JoinWith(<<",", " ">>, sports)])

\* input_prompt of generate_itinerary, lines 161-168
ItineraryPrompt(c, d, as, sports) ==
    Prompt("itinerary_prompt",
           [city |-> c,
            days |-> d,
            attractions |-> JoinWith(<<",", " ">>, as),
            adventure_sports |-> JoinWith(<<",", " ">>, sports)])

\* a return that gives the hotel text where the itinerary belongs
PlannerOutputs_Swapped(g, itin, hotel, total, summ) ==
    <<g.full_guide, hotel, itin, <<Rupee>> \o StrOfInt(total), summ>>

\* the tuple main_travel_planner returns, line 212
PlannerOutputs(g, itin, hotel, total, summ) ==
    <<g.full_guide, itin, hotel, <<Rupee>> \o StrOfInt(total), summ>>

\* guide texts of the planner's runs: no list, three names, a repeated name,
\* four names, a plain numbered list
PlannerGuides ==
    {Flatten(segs) : segs \in
        {<<>>,
         <<<<"1", "\\", ".", "\\", "A", "w", "w", "w">>,
           <<"2", "\\", " ", "\\", "B", "w", ",", "s">>,
           <<"3", "\\", "-", "\\", "s", "s", "C", "&", "'", "-">>>>,
         <<<<"1", "\\", ".", "\\", "A", "w", "w", "w">>,
           <<"1", "\\", ".", "\\", "A", "w", "w", "w">>,
           <<"1", "\\", "x", "\\", "E", "s">>>>,
         <<<<"\\", "-", "\\", "D", "w", "w", "w">>,
           <<"1", "\\", ".", "\\", "A", "w", "w", "w">>,
           <<"2", "\\", " ", "\\", "B", "w", ",", "s">>,
           <<"3", "\\", "-", "\\", "s", "s", "C", "&", "'", "-">>>>}}
    \cup {NumberedList(<<"R", "e", "d", " ", "F", "o", "r", "t">>,
                       <<"I", "n", "d", "i", "a", " ", "G", "a", "t", "e">>,
                       <<"L", "o", "t", "u", "s", " ", "T", "e", "m", "p", "l", "e">>)}

\* itinerary texts of the planner's runs: empty, two priced days, a day without
\* an amount, an amount without the marker
PlannerItineraries ==
    {Flatten(segs) : segs \in
        {<<>>,
         <<EstimatedCost, <<Rupee, "5">>, <<"\n">>, EstimatedCost, <<Dollar, "1", "2">>>>,
         <<EstimatedCost, <<Rupee>>, <<"\n">>, <<"7">>>>,
         <<<<Dollar, "1", "2">>, <<"\n">>, EstimatedCost>>}}

\* hotel texts of the planner's runs: prose, a list of one record, a record
\* without a name, an empty list
PlannerHotels ==
    {Flatten(segs) : segs \in
        {<<<<"H", "o", "t", "e", "l", "s">>>>,
         <<<<"[">>,
           <<"{", "\"", "n", "a", "m", "e", "\"", ":", " ", "\"", "R", "i", "t", "z", "\"", "}">>,
           <<"]">>>>,
         <<<<"[">>, <<"{", "\"", "c", "o", "s", "t", "\"", ":", " ", "5", "}">>, <<"]">>>>,
         <<<<"[">>, <<"]">>>>}}

InitPlanner ==
    /\ pc = "travel_guide"
    /\ city \in Cities
    /\ days \in DaysSet
    /\ full_response = <<>>
    /\ guide = NoGuide
    /\ attractions = <<>>
    /\ itinerary = <<>>
    /\ hotel_data = <<>>
    /\ total_cost = 0
    /\ summary = <<>>
    /\ result = Pending
    /\ calls = <<>>
    /\ ForecastUnset

\* a caller that catches the exception and makes the call again
Propagate_Retried(call) ==
    /\ calls' = Append(calls, call)
    /\ result' = result
    /\ pc' = pc

\* an exception of a backend call reaches the caller of main_travel_planner:
\* neither it nor the function that made the call has a try
Propagate(call) ==
    /\ calls' = Append(calls, call)
    /\ result' = Raised(call.to)
    /\ pc' = "done"

\* lines 205 and 25-26: the guide backend answers
PlannerGuideAnswers ==
    /\ pc = "travel_guide"
    /\ \E text \in PlannerGuides :
        /\ calls' = Append(calls, Call("model", Prompt("travel_prompt", [city |-> city]), Answer(text)))
        /\ full_response' = text
    /\ pc' = "extract"
    /\ UNCHANGED <<city, days, guide, attractions, itinerary, hotel_data, total_cost, summary, result>>
    /\ UNCHANGED forecastVars

\* line 26: the guide backend fails
PlannerGuideFails ==
    /\ pc = "travel_guide"
    /\ Propagate(Call("model", Prompt("travel_prompt", [city |-> city]), Failed))
    /\ UNCHANGED <<city, days, full_response, guide, attractions, itinerary, hotel_data, total_cost, summary>>
    /\ UNCHANGED forecastVars

\* lines 27-33 and 206: the attractions are extracted from the guide text
PlannerExtract ==
    /\ pc = "extract"
    /\ guide' = TravelGuide(city, full_response)
    /\ attractions' = guide'.attractions
    /\ pc' = "generate_itinerary"
    /\ UNCHANGED <<city, days, full_response, itinerary, hotel_data, total_cost, summary, result, calls>>
    /\ UNCHANGED forecastVars

\* lines 207-208 and 161-170: the itinerary backend answers
PlannerItineraryAnswers ==
    /\ pc = "generate_itinerary"
    /\ \E text \in PlannerItineraries :
        /\ calls' = Append(calls, Call("itinerary_model",
                                       ItineraryPrompt(city, days, attractions, adventure_sports),
                                       Answer(text)))
        /\ itinerary' = text
    /\ pc' = "hotel_recommender"
    /\ UNCHANGED <<city, days, full_response, guide, attractions, hotel_data, total_cost, summary, result>>
    /\ UNCHANGED forecastVars

\* line 169: the itinerary backend fails
PlannerItineraryFails ==
    /\ pc = "generate_itinerary"
    /\ Propagate(Call("itinerary_model",
                      ItineraryPrompt(city, days, attractions, adventure_sports), Failed))
    /\ UNCHANGED <<city, days, full_response, guide, attractions, itinerary, hotel_data, total_cost, summary>>
    /\ UNCHANGED forecastVars

\* lines 209 and 129-131: the hotel backend answers
PlannerHotelAnswers ==
    /\ pc = "hotel_recommender"
    /\ \E text \in PlannerHotels :
        /\ calls' = Append(calls, Call("model", Prompt("prompt", [city |-> city]), Answer(text)))
        /\ hotel_data' = text
    /\ pc' = "calculate_total_cost"
    /\ UNCHANGED <<city, days, full_response, guide, attractions, itinerary, total_cost, summary, result>>
    /\ UNCHANGED forecastVars

\* line 130: the hotel backend fails
PlannerHotelFails ==
    /\ pc = "hotel_recommender"
    /\ Propagate(Call("model", Prompt("prompt", [city |-> city]), Failed))
    /\ UNCHANGED <<city, days, full_response, guide, attractions, itinerary, hotel_data, total_cost, summary>>
    /\ UNCHANGED forecastVars

\* line 210
PlannerCost ==
    /\ pc = "calculate_total_cost"
    /\ total_cost' = calculate_total_cost(itinerary)
    /\ pc' = "generate_summary"
    /\ UNCHANGED <<city, days, full_response, guide, attractions, itinerary, hotel_data, summary, result, calls>>
    /\ UNCHANGED forecastVars

\* line 211
PlannerSummary ==
    /\ pc = "generate_summary"
    /\ summary' = generate_summary(city, days, attractions, hotel_data, total_cost)
    /\ pc' = "return"
    /\ UNCHANGED <<city, days, full_response, guide, attractions, itinerary, hotel_data, total_cost, result, calls>>
    /\ UNCHANGED forecastVars

\* line 212
PlannerReturn ==
    /\ pc = "return"
    /\ result' = Returned(PlannerOutputs(guide, itinerary, hotel_data, total_cost, summary))
    /\ pc' = "done"
    /\ UNCHANGED <<city, days, full_response, guide, attractions, itinerary, hotel_data, total_cost, summary, calls>>
    /\ UNCHANGED forecastVars

NextPlanner ==
    \/ PlannerGuideAnswers
    \/ PlannerGuideFails
    \/ PlannerExtract
    \/ PlannerItineraryAnswers
    \/ PlannerItineraryFails
    \/ PlannerHotelAnswers
    \/ PlannerHotelFails
    \/ PlannerCost
    \/ PlannerSummary
    \/ PlannerReturn

SpecPlanner == InitPlanner /\ [][NextPlanner]_vars

-----------------------------------------------------------------------------
(* Properties of main_travel_planner, under SpecPlanner.                   *)

PlannerReturned == pc = "done" /\ result.kind = "returned"

\* C7: when main_travel_planner completes, the guide, itinerary and hotel
\* outputs are the backends' texts unchanged, the summary holds the city, the
\* duration "<days> days", exactly the attractions extracted from that guide
\* text and the total calculate_total_cost gives for that itinerary text, and
\* the cost label shows the same total as the summary.
C7_OutputsConsistent ==
    PlannerReturned =>
        LET out == result.value
        IN  /\ Len(out) = 5
            /\ Len(calls) = 3
            /\ out[1] = calls[1].response.text
            /\ out[2] = calls[2].response.text
            /\ out[3] = calls[3].response.text
            /\ out[4] = <<Rupee>> \o StrOfInt(calculate_total_cost(calls[2].response.text))
            /\ Contains(out[5], C3_Line(<<"C", "i", "t", "y">>, city))
            /\ Contains(out[5], C3_Line(<<"D", "u", "r", "a", "t", "i", "o", "n">>,
                                        StrOfInt(days) \o <<" ", "d", "a", "y", "s">>))
            /\ Contains(out[5],
                        C3_Line(<<"T", "o", "p", " ", "A", "t", "t", "r", "a", "c", "t", "i", "o",
                                  "n", "s">>,
                                JoinWith(<<",", " ">>,
                                         TravelGuide(city, calls[1].response.text).attractions)))
            /\ Contains(out[5] \o <<"\n">>,
                        C3_Line(<<"E", "s", "t", "i", "m", "a", "t", "e", "d", " ", "T", "o", "t",
                                  "a", "l", " ", "T", "r", "i", "p", " ", "C", "o", "s", "t">>,
                                out[4]))

\* a completed run with attractions, a non-zero total and three different texts
C7_Witness ==
    /\ PlannerReturned
    /\ Len(attractions) = 3
    /\ total_cost = 17
    /\ result.value[2] # result.value[3]
    /\ days = MaxDays

\* the order of the steps of main_travel_planner; a failed backend call ends it
C9_Order ==
    {<<"travel_guide", "extract">>,
     <<"extract", "generate_itinerary">>,
     <<"generate_itinerary", "hotel_recommender">>,
     <<"hotel_recommender", "calculate_total_cost">>,
     <<"calculate_total_cost", "generate_summary">>,
     <<"generate_summary", "return">>,
     <<"return", "done">>,
     <<"travel_guide", "done">>,
     <<"generate_itinerary", "done">>,
     <<"hotel_recommender", "done">>}

\* the backend calls made so far: the guide call, then the itinerary call, then
\* the hotel call, each at most once; the itinerary call follows an answered
\* guide call, and its prompt holds the attractions extracted from that answer
\* and the activities "Paragliding, Jet Skiing"
C9_Calls ==
    /\ Len(calls) <= 3
    /\ Len(calls) >= 1 => calls[1].request.template = "travel_prompt"
    /\ Len(calls) >= 2 =>
        /\ calls[1].response.ok
        /\ calls[2].to = "itinerary_model"
        /\ calls[2].request.template = "itinerary_prompt"
        /\ calls[2].request.fields.city = city
        /\ calls[2].request.fields.days = days
        /\ calls[2].request.fields.attractions =
              JoinWith(<<",", " ">>, Take(Attractions(calls[1].response.text), 3))
        /\ calls[2].request.fields.adventure_sports =
              <<"P", "a", "r", "a", "g", "l", "i", "d", "i", "n", "g", ",", " ",
                "J", "e", "t", " ", "S", "k", "i", "i", "n", "g">>
    /\ Len(calls) >= 3 =>
        /\ calls[2].response.ok
        /\ calls[3].request.template = "prompt"
    /\ pc \in {"calculate_total_cost", "generate_summary", "return"} =>
        Len(calls) = 3 /\ calls[3].response.ok

\* C9: the steps of main_travel_planner run in the order guide generation,
\* attraction extraction, itinerary generation, hotel generation, cost
\* summation, summary assembly; each generation call is made at most once; the
\* itinerary call is not issued before the guide response has arrived, and its
\* prompt is built from the attractions extracted from that guide and the
\* constant activity list ["Paragliding", "Jet Skiing"].
C9_FixedOrder == [][pc' # pc => <<pc, pc'>> \in C9_Order]_vars /\ []C9_Calls

\* a completed run whose itinerary prompt held three attractions
C9_Witness ==
    /\ PlannerReturned
    /\ Len(calls) = 3
    /\ Len(attractions) = 3
    /\ calls[2].request.fields.attractions # <<>>

\* a failed backend call is the last call made, the run has ended with the
\* failure raised to the caller, and nothing of the later steps exists
C10_Failed ==
    \A i \in 1..Len(calls) :
        ~calls[i].response.ok =>
            /\ i = Len(calls)
            /\ pc = "done"
            /\ result.kind = "raised"
            /\ total_cost = 0
            /\ summary = <<>>
            /\ hotel_data = <<>>
            /\ i <= 2 => itinerary = <<>>
            /\ i = 1 => full_response = <<>> /\ guide = NoGuide /\ attractions = <<>>

\* C10: if the guide, itinerary or hotel backend call fails, the failure reaches
\* the caller of main_travel_planner: the call is not retried, no later step
\* runs and none of the five outputs is returned.
C10_FailurePropagates ==
    []C10_Failed /\ [][\A i \in 1..Len(calls) : calls[i].response.ok]_vars

\* the hotel call failed after the guide and the itinerary were generated
C10_Witness ==
    /\ Len(calls) = 3
    /\ ~calls[3].response.ok
    /\ itinerary # <<>>
    /\ Len(attractions) = 3

-----------------------------------------------------------------------------
(* calamity_forecast.                                                      *)

Letters == <<"A", "B", "C", "D", "E", "F", "G", "H", "I", "J", "K", "L", "M",
             "N", "O", "P", "Q", "R", "S", "T", "U", "V", "W", "X", "Y", "Z">>

LowerLetters == <<"a", "b", "c", "d", "e", "f", "g", "h", "i", "j", "k", "l", "m",
                  "n", "o", "p", "q", "r", "s", "t", "u", "v", "w", "x", "y", "z">>

\* s.lower()
Lower(s) ==
    [i \in 1..Len(s) |->
        IF s[i] \in Upper THEN LowerLetters[CHOOSE k \in 1..26 : Letters[k] = s[i]] ELSE s[i]]

\* The exception a Python expression raised, or its value.
Raise(e) == [ok |-> FALSE, exc |-> e]

Value(v) == [ok |-> TRUE, val |-> v]

\* d[key] for a JSON value d: TypeError when d is no dict (for a list, a string
\* key is no index), KeyError when the key is absent
Subscript(d, key) ==
    IF d.t # "dict" THEN Raise("TypeError")
    ELSE IF ~HasKey(d, key) THEN Raise("KeyError")
    ELSE Value(Lookup(d, key))

RECURSIVE JFloat(_, _)
\* the float m / 10^e, without trailing zeros in its decimal places
JFloat(m, e) ==
    IF e > 0 /\ m % 10 = 0 THEN JFloat(m \div 10, e - 1) ELSE [t |-> "float", m |-> m, e |-> e]

\* float(v): of a string, trimmed, an optional sign and digits with at most one
\* decimal point among them (exponents, inf, nan and underscores are left out);
\* of an int or a bool its value; ValueError or TypeError otherwise
FloatOf(v) ==
    IF v.t = "int" THEN Value(JFloat(v.v, 0))
    ELSE IF v.t = "bool" THEN Value(JFloat(IF v.v THEN 1 ELSE 0, 0))
    ELSE IF v.t # "str" THEN Raise("TypeError")
    ELSE LET s == Strip(v.v)
             d == IF s # <<>> /\ s[1] \in {"-", "+"} THEN 2 ELSE 1
             p == RunEnd(s, d, Digit)
             e == IF p <= Len(s) /\ s[p] = "." THEN RunEnd(s, p + 1, Digit) ELSE p
             digits == SubSeq(s, d, p - 1) \o SubSeq(s, p + 1, e - 1)
             m == IntOfDigits(digits)
         IN  IF digits = <<>> \/ e # Len(s) + 1 THEN Raise("ValueError")
             ELSE Value(JFloat(IF s[1] = "-" THEN 0 - m ELSE m, Len(SubSeq(s, p + 1, e - 1))))

\* n written with at least w digits, as strftime pads a field
Padded(n, w) ==
    LET digits == StrOfNat(n)
    IN  [i \in 1..(w - Len(digits)) |-> "0"] \o digits

\* datetime.utcfromtimestamp(ms / 1000).strftime('%Y-%m-%d %H:%M:%S'): the
\* proleptic Gregorian date and the time of day of the second that holds ms
UtcTime(ms) ==
    LET secs == ms \div 1000
        day == secs \div 86400
        rest == secs % 86400
        z == day + 719468
        era == z \div 146097
        doe == z - era * 146097
        yoe == (doe - doe \div 1460 + doe \div 36524 - doe \div 146096) \div 365
        doy == doe - (365 * yoe + yoe \div 4 - yoe \div 100)
        mp == (5 * doy + 2) \div 153
        d == doy - (153 * mp + 2) \div 5 + 1
        m == IF mp < 10 THEN mp + 3 ELSE mp - 9
        y == yoe + era * 400 + (IF m <= 2 THEN 1 ELSE 0)
    IN  Padded(y, 4) \o <<"-">> \o Padded(m, 2) \o <<"-">> \o Padded(d, 2) \o <<" ">>
        \o Padded(rest \div 3600, 2) \o <<":">> \o Padded((rest % 3600) \div 60, 2)
        \o <<":">> \o Padded(rest % 60, 2)

\* the error of line 43
GeoParseError ==
    <<"F", "a", "i", "l", "e", "d", " ", "t", "o", " ", "p", "a", "r", "s", "e", " ",
      "g", "e", "o", "l", "o", "c", "a", "t", "i", "o", "n", " ", "r", "e", "s", "p",
      "o", "n", "s", "e", ".", " ", "P", "o", "s", "s", "i", "b", "l", "y", " ", "b",
      "l", "o", "c", "k", "e", "d", " ", "o", "r", " ", "i", "n", "v", "a", "l", "i",
      "d", ".">>

\* the error of line 45
LocationNotFound(c) ==
    <<"L", "o", "c", "a", "t", "i", "o", "n", " ", "'">> \o c
    \o <<"'", " ", "n", "o", "t", " ", "f", "o", "u", "n", "d", ".">>

\* the marker of line 62
WeatherFailed ==
    JStr(
      <<"W", "e", "a", "t", "h", "e", "r", " ", "A", "P", "I", " ", "f", "a", "i", "l",
        "e", "d", " ", "o", "r", " ", "r", "e", "t", "u", "r", "n", "e", "d", " ", "i",
        "n", "v", "a", "l", "i", "d", " ", "d", "a", "t", "a">>)

\* the marker of line 85
UsgsUnavailable ==
    JStr(
      <<"U", "S", "G", "S", " ", "d", "a", "t", "a", " ", "u", "n", "a", "v", "a", "i",
        "l", "a", "b", "l", "e", " ", "o", "r", " ", "f", "a", "i", "l", "e", "d", " ",
        "t", "o", " ", "d", "e", "c", "o", "d", "e">>)

\* the marker of line 98
NoGdacsAlerts ==
    JStr(
      <<"N", "o", " ", "G", "D", "A", "C", "S", " ", "d", "i", "s", "a", "s", "t", "e",
        "r", " ", "a", "l", "e", "r", "t", "s", " ", "f", "o", "u", "n", "d", ".">>)

\* the marker of line 100
GdacsFailed ==
    JStr(
      <<"F", "a", "i", "l", "e", "d", " ", "t", "o", " ", "f", "e", "t", "c", "h", " ",
        "G", "D", "A", "C", "S", " ", "a", "l", "e", "r", "t", "s">>)

\* a response whose .json() raises
NotJson == [ok |-> TRUE, json |-> Raise("JSONDecodeError")]

\* a response whose .json() gives val
JsonBody(val) == [ok |-> TRUE, json |-> Value(val)]

\* bool(v) for a JSON value
Truthy(v) ==
    CASE v.t = "NoneType" -> FALSE
      [] v.t = "bool" -> v.v
      [] v.t = "int" -> v.v # 0
      [] OTHER -> v.v # <<>>

\* a geocoding that takes the last candidate
FirstCandidate_Last(data) ==
    IF data.t # "list" THEN Raise("KeyError") ELSE Value(data.v[Len(data.v)])

\* geo_data[0], lines 46-47, for a geo_data that is not empty: KeyError of a dict
\* (it has no key 0), TypeError of what cannot be subscripted
FirstCandidate(data) ==
    IF data.t = "list" THEN Value(data.v[1])
    ELSE IF data.t = "dict" THEN Raise("KeyError")
    ELSE IF data.t = "str" THEN Value(JStr(<<data.v[1]>>))
    ELSE Raise("TypeError")

\* float(geo_data[0][key])
Coordinate(data, key) ==
    LET first == FirstCandidate(data)
        field == Subscript(first.val, key)
    IN  IF ~first.ok THEN first
        ELSE IF ~field.ok THEN field
        ELSE FloatOf(field.val)

\* weather_params, lines 50-57
WeatherParams(la, lo, ds) ==
    [latitude |-> la,
     longitude |-> lo,
     daily |-> "temperature_2m_max,temperature_2m_min,precipitation_sum",
     timezone |-> "auto",
     start_date |-> ds[1],
     end_date |-> ds[2]]

\* usgs_params, lines 65-70
UsgsParams(ds) ==
    [format |-> "geojson", starttime |-> ds[1], endtime |-> ds[2], minmagnitude |-> JFloat(45, 1)]

\* lines 59-62
WeatherData(response) ==
    IF ~response.json.ok THEN WeatherFailed
    ELSE IF response.json.val.t # "dict" THEN WeatherFailed
    ELSE IF HasKey(response.json.val, <<"d", "a", "i", "l", "y">>)
    THEN Lookup(response.json.val, <<"d", "a", "i", "l", "y">>)
    ELSE JDict(<<>>)

\* The body of the loop of lines 75-83 for the feature eq: [ok, keep, item].
Earthquake(c, eq) ==
    LET properties == Subscript(eq, <<"p", "r", "o", "p", "e", "r", "t", "i", "e", "s">>)
        place_info == Subscript(properties.val, <<"p", "l", "a", "c", "e">>)
        mag == Subscript(properties.val, <<"m", "a", "g">>)
        time == Subscript(properties.val, <<"t", "i", "m", "e">>)
        url == Subscript(properties.val, <<"u", "r", "l">>)
    IN  IF ~properties.ok \/ ~place_info.ok \/ place_info.val.t # "str"
        THEN [ok |-> FALSE, keep |-> FALSE]
        ELSE IF ~Contains(Lower(place_info.val.v), Lower(c))
        THEN [ok |-> TRUE, keep |-> FALSE]
        ELSE IF ~mag.ok \/ ~time.ok \/ time.val.t \notin {"int", "bool"} \/ ~url.ok
        THEN [ok |-> FALSE, keep |-> FALSE]
        ELSE [ok |-> TRUE,
              keep |-> TRUE,
              item |-> [place |-> place_info.val,
                        magnitude |-> mag.val,
                        time |-> JStr(UtcTime(IF time.val.t = "int" THEN time.val.v
                                              ELSE IF time.val.v THEN 1 ELSE 0)),
                        url |-> url.val]]

RECURSIVE EarthquakeLoop(_, _, _)
\* the loop of lines 75-83 over features, found being the list so far: [ok, list]
EarthquakeLoop(c, features, found) ==
    IF features = <<>> THEN [ok |-> TRUE, list |-> found]
    ELSE LET eq == Earthquake(c, Head(features))
         IN  IF ~eq.ok THEN [ok |-> FALSE, list |-> found]
             ELSE EarthquakeLoop(c, Tail(features),
                                 IF eq.keep THEN Append(found, eq.item) ELSE found)

\* earthquakes, lines 72-85
Earthquakes(c, response) ==
    LET usgs_data == response.json
        features ==
            IF HasKey(usgs_data.val, <<"f", "e", "a", "t", "u", "r", "e", "s">>)
            THEN Lookup(usgs_data.val, <<"f", "e", "a", "t", "u", "r", "e", "s">>)
            ELSE JList(<<>>)
        loop == EarthquakeLoop(c, features.v, <<>>)
    IN  IF ~usgs_data.ok \/ usgs_data.val.t # "dict" THEN UsgsUnavailable
        ELSE IF features.t \in {"dict", "str"} /\ features.v = <<>> THEN JList(<<>>)
        ELSE IF features.t # "list" \/ ~loop.ok THEN UsgsUnavailable
        ELSE JList(loop.list)

\* the feed feedparser.parse gives (Failed when it raises); an entry is a record
\* of the attributes it has
Feed(entries) == [ok |-> TRUE, entries |-> entries]

RECURSIVE AlertLoop(_, _, _)
\* the loop of lines 90-96 over entries, found being the list so far: [ok, list];
\* an entry without title, summary or link raises AttributeError
AlertLoop(c, entries, found) ==
    IF entries = <<>> THEN [ok |-> TRUE, list |-> found]
    ELSE LET entry == Head(entries)
         IN  IF "title" \notin DOMAIN entry THEN [ok |-> FALSE, list |-> found]
             ELSE IF Contains(Lower(entry.title), Lower(c))
             THEN IF "summary" \notin DOMAIN entry \/ "link" \notin DOMAIN entry
                  THEN [ok |-> FALSE, list |-> found]
                  ELSE AlertLoop(c, Tail(entries),
                                 Append(found, [event |-> JStr(entry.title),
                                                details |-> JStr(entry.summary),
                                                link |-> JStr(entry.link)]))
             ELSE IF "summary" \notin DOMAIN entry THEN [ok |-> FALSE, list |-> found]
             ELSE IF Contains(Lower(entry.summary), Lower(c))
             THEN IF "link" \notin DOMAIN entry
                  THEN [ok |-> FALSE, list |-> found]
                  ELSE AlertLoop(c, Tail(entries),
                                 Append(found, [event |-> JStr(entry.title),
                                                details |-> JStr(entry.summary),
                                                link |-> JStr(entry.link)]))
             ELSE AlertLoop(c, Tail(entries), found)

\* gdacs_alerts, lines 87-100
GdacsAlerts(c, gdacs_feed) ==
    LET loop == AlertLoop(c, gdacs_feed.entries, <<>>)
    IN  IF ~gdacs_feed.ok \/ ~loop.ok THEN GdacsFailed
        ELSE IF loop.list = <<>> THEN NoGdacsAlerts
        ELSE JList(loop.list)

\* the tuple of line 102, each position under the name of the variable it holds
Report(c, la, lo, weather, alerts) ==
    [city |-> c, lat |-> la, lon |-> lo, weather_data |-> weather, gdacs_alerts |-> alerts]

-----------------------------------------------------------------------------
(* calamity_forecast as an entry point: what the four services answer.     *)

DateRanges == {<<"1970-01-05", "1970-01-12">>}

\* a geocoding candidate
Candidate(la, lo) ==
    JDict(<<<<<<"l", "a", "t">>, JStr(la)>>, <<<<"l", "o", "n">>, JStr(lo)>>>>)

\* the bodies the geocoding service answers with: no JSON, JSON that is falsy,
\* candidates with and without usable coordinates, and an object
GeoResponses ==
    {NotJson,
     JsonBody(JList(<<>>)),
     JsonBody(JDict(<<>>)),
     JsonBody(JNone),
     JsonBody(JList(<<Candidate(<<"2", "8", ".", "6">>, <<"7", "7", ".", "2">>)>>)),
     JsonBody(JList(<<Candidate(<<"4", "8", ".", "8", "5">>, <<"2", ".", "3", "5">>),
                      Candidate(<<"2", "8", ".", "6">>, <<"7", "7", ".", "2">>)>>)),
     JsonBody(JList(<<Candidate(<<"-", "3", "3", ".", "9">>, <<"1", "5", "1">>),
                      Candidate(<<"4", "8", ".", "8", "5">>, <<"2", ".", "3", "5">>)>>)),
     JsonBody(JList(<<Candidate(<<"n", "o", "r", "t", "h">>, <<"7", "7", ".", "2">>)>>)),
     JsonBody(JList(<<JDict(<<<<<<"l", "o", "n">>, JStr(<<"7", "7", ".", "2">>)>>>>)>>)),
     JsonBody(JDict(<<<<<<"e", "r", "r", "o", "r">>, JStr(<<"b", "l", "o", "c", "k", "e", "d">>)>>>>))}

WeatherResponses ==
    {NotJson,
     JsonBody(JList(<<>>)),
     JsonBody(JDict(<<<<<<"r", "e", "a", "s", "o", "n">>, JStr(<<"b", "l", "o", "c", "k", "e", "d">>)>>>>)),
     JsonBody(JDict(<<<<<<"d", "a", "i", "l", "y">>,
                       JDict(<<<<<<"r", "a", "i", "n">>, JList(<<JInt(0), JInt(12)>>)>>>>)>>>>))}

\* a feature of the earthquake catalog
Feature(place, mag, time, url) ==
    JDict(<<<<<<"p", "r", "o", "p", "e", "r", "t", "i", "e", "s">>,
              JDict(<<<<<<"p", "l", "a", "c", "e">>, JStr(place)>>,
                      <<<<"m", "a", "g">>, mag>>,
                      <<<<"t", "i", "m", "e">>, time>>,
                      <<<<"u", "r", "l">>, JStr(url)>>>>)>>>>)

\* features near Delhi and Tokyo, and one without properties
Features ==
    {Feature(<<"n", "e", "a", "r", " ", "N", "e", "w", " ", "D", "E", "L", "H", "I">>,
             JInt(5), JInt(500000000), <<"u", "/", "1">>),
     Feature(<<"T", "o", "k", "y", "o">>, JInt(6), JInt(86399999), <<"u", "/", "2">>),
     JDict(<<<<<<"i", "d">>, JStr(<<"u", "/", "1">>)>>>>)}

UsgsResponses ==
    {NotJson, JsonBody(JList(<<>>)), JsonBody(JDict(<<>>))}
    \cup {JsonBody(JDict(<<<<<<"f", "e", "a", "t", "u", "r", "e", "s">>, JList(fs)>>>>)) :
            fs \in SeqsUpTo(Features, MaxFeatures)}

\* entries of the alert feed: the city in the title, in the summary, and an
\* entry without summary
Entries ==
    {[title |-> <<"F", "l", "o", "o", "d", " ", "i", "n", " ", "d", "e", "l", "h", "i">>,
      summary |-> <<"R", "e", "d", " ", "a", "l", "e", "r", "t">>,
      link |-> <<"g", "/", "1">>],
     [title |-> <<"S", "t", "o", "r", "m">>,
      summary |-> <<"W", "i", "n", "d", " ", "o", "v", "e", "r", " ", "P", "A", "R", "I", "S">>,
      link |-> <<"g", "/", "2">>],
     [title |-> <<"D", "r", "o", "u", "g", "h", "t">>,
      link |-> <<"g", "/", "3">>]}

GdacsFeeds == {Feed(es) : es \in SeqsUpTo(Entries, MaxEntries)}

InitForecast ==
    /\ pc = "geo_request"
    /\ city \in Cities
    /\ dates \in DateRanges
    /\ days = 0
    /\ full_response = <<>>
    /\ guide = NoGuide
    /\ attractions = <<>>
    /\ itinerary = <<>>
    /\ hotel_data = <<>>
    /\ total_cost = 0
    /\ summary = <<>>
    /\ result = Pending
    /\ calls = <<>>
    /\ geo_data = <<>>
    /\ lat = 0
    /\ lon = 0
    /\ weather_data = <<>>
    /\ earthquakes = <<>>
    /\ gdacs_alerts = <<>>

\* geo_params, line 37
GeoParams(c) == [q |-> c, format |-> "json"]

\* the response of the last request
LastResponse == calls[Len(calls)].response

\* line 39: requests.get raises, outside every try
ForecastGeoFails ==
    /\ pc = "geo_request"
    /\ calls' = Append(calls, Call("nominatim", GeoParams(city), Failed))
    /\ result' = Raised("requests.get")
    /\ pc' = "done"
    /\ UNCHANGED <<city, dates, geo_data, lat, lon, weather_data, earthquakes, gdacs_alerts>>
    /\ UNCHANGED <<days, full_response, guide, attractions, itinerary, hotel_data, total_cost, summary>>

\* line 39: the geocoding service answers
ForecastGeoResponds ==
    /\ pc = "geo_request"
    /\ \E response \in GeoResponses :
        calls' = Append(calls, Call("nominatim", GeoParams(city), response))
    /\ pc' = "geo_parse"
    /\ UNCHANGED <<city, dates, result, geo_data, lat, lon, weather_data, earthquakes, gdacs_alerts>>
    /\ UNCHANGED <<days, full_response, guide, attractions, itinerary, hotel_data, total_cost, summary>>

\* lines 40-43: geo_response.json() raises
ForecastGeoUnparseable ==
    /\ pc = "geo_parse"
    /\ ~LastResponse.json.ok
    /\ result' = Returned([error |-> GeoParseError])
    /\ pc' = "done"
    /\ UNCHANGED <<city, dates, calls, geo_data, lat, lon, weather_data, earthquakes, gdacs_alerts>>
    /\ UNCHANGED <<days, full_response, guide, attractions, itinerary, hotel_data, total_cost, summary>>

\* lines 40-45: geo_data is falsy
ForecastLocationNotFound ==
    /\ pc = "geo_parse"
    /\ LastResponse.json.ok
    /\ geo_data' = LastResponse.json.val
    /\ ~Truthy(geo_data')
    /\ result' = Returned([error |-> LocationNotFound(city)])
    /\ pc' = "done"
    /\ UNCHANGED <<city, dates, calls, lat, lon, weather_data, earthquakes, gdacs_alerts>>
    /\ UNCHANGED <<days, full_response, guide, attractions, itinerary, hotel_data, total_cost, summary>>

\* lines 46-47: geo_data[0]["lat"] or geo_data[0]["lon"] is not there or is no
\* number, and nothing catches the exception
ForecastCoordinatesRaise ==
    /\ pc = "geo_parse"
    /\ LastResponse.json.ok
    /\ geo_data' = LastResponse.json.val
    /\ Truthy(geo_data')
    /\ LET la == Coordinate(geo_data', <<"l", "a", "t">>)
           lo == Coordinate(geo_data', <<"l", "o", "n">>)
       IN  /\ ~la.ok \/ ~lo.ok
           /\ result' = Raised(IF ~la.ok THEN la.exc ELSE lo.exc)
           /\ lat' = IF la.ok THEN la.val ELSE lat
    /\ pc' = "done"
    /\ UNCHANGED <<city, dates, calls, lon, weather_data, earthquakes, gdacs_alerts>>
    /\ UNCHANGED <<days, full_response, guide, attractions, itinerary, hotel_data, total_cost, summary>>

\* lines 46-47: the coordinates of the first candidate
ForecastCoordinates ==
    /\ pc = "geo_parse"
    /\ LastResponse.json.ok
    /\ geo_data' = LastResponse.json.val
    /\ Truthy(geo_data')
    /\ LET la == Coordinate(geo_data', <<"l", "a", "t">>)
           lo == Coordinate(geo_data', <<"l", "o", "n">>)
       IN  /\ la.ok /\ lo.ok
           /\ lat' = la.val
           /\ lon' = lo.val
    /\ pc' = "weather"
    /\ UNCHANGED <<city, dates, calls, result, weather_data, earthquakes, gdacs_alerts>>
    /\ UNCHANGED <<days, full_response, guide, attractions, itinerary, hotel_data, total_cost, summary>>

\* line 58: requests.get raises, outside the try of lines 59-62
ForecastWeatherFails ==
    /\ pc = "weather"
    /\ calls' = Append(calls, Call("open-meteo", WeatherParams(lat, lon, dates), Failed))
    /\ result' = Raised("requests.get")
    /\ pc' = "done"
    /\ UNCHANGED <<city, dates, geo_data, lat, lon, weather_data, earthquakes, gdacs_alerts>>
    /\ UNCHANGED <<days, full_response, guide, attractions, itinerary, hotel_data, total_cost, summary>>

\* lines 58-62: the weather service answers
ForecastWeatherResponds ==
    /\ pc = "weather"
    /\ \E response \in WeatherResponses :
        /\ calls' = Append(calls, Call("open-meteo", WeatherParams(lat, lon, dates), response))
        /\ weather_data' = WeatherData(response)
    /\ pc' = "usgs"
    /\ UNCHANGED <<city, dates, result, geo_data, lat, lon, earthquakes, gdacs_alerts>>
    /\ UNCHANGED <<days, full_response, guide, attractions, itinerary, hotel_data, total_cost, summary>>

\* line 71: requests.get raises, outside the try of lines 73-85
ForecastUsgsFails ==
    /\ pc = "usgs"
    /\ calls' = Append(calls, Call("usgs", UsgsParams(dates), Failed))
    /\ result' = Raised("requests.get")
    /\ pc' = "done"
    /\ UNCHANGED <<city, dates, geo_data, lat, lon, weather_data, earthquakes, gdacs_alerts>>
    /\ UNCHANGED <<days, full_response, guide, attractions, itinerary, hotel_data, total_cost, summary>>

\* lines 71-85: the earthquake catalog answers
ForecastUsgsResponds ==
    /\ pc = "usgs"
    /\ \E response \in UsgsResponses :
        /\ calls' = Append(calls, Call("usgs", UsgsParams(dates), response))
        /\ earthquakes' = Earthquakes(city, response)
    /\ pc' = "gdacs"
    /\ UNCHANGED <<city, dates, result, geo_data, lat, lon, weather_data, gdacs_alerts>>
    /\ UNCHANGED <<days, full_response, guide, attractions, itinerary, hotel_data, total_cost, summary>>

\* lines 87-100: feedparser.parse raises or gives a feed, inside the try
ForecastGdacs ==
    /\ pc = "gdacs"
    /\ \E gdacs_feed \in GdacsFeeds \cup {Failed} :
        /\ calls' = Append(calls, Call("gdacs", "https://www.gdacs.org/xml/rss.xml", gdacs_feed))
        /\ gdacs_alerts' = GdacsAlerts(city, gdacs_feed)
    /\ pc' = "return"
    /\ UNCHANGED <<city, dates, result, geo_data, lat, lon, weather_data, earthquakes>>
    /\ UNCHANGED <<days, full_response, guide, attractions, itinerary, hotel_data, total_cost, summary>>

\* line 102
ForecastReturn ==
    /\ pc = "return"
    /\ result' = Returned(Report(city, lat, lon, weather_data, gdacs_alerts))
    /\ pc' = "done"
    /\ UNCHANGED <<city, dates, calls, geo_data, lat, lon, weather_data, earthquakes, gdacs_alerts>>
    /\ UNCHANGED <<days, full_response, guide, attractions, itinerary, hotel_data, total_cost, summary>>

NextForecast ==
    \/ ForecastGeoFails
    \/ ForecastGeoResponds
    \/ ForecastGeoUnparseable
    \/ ForecastLocationNotFound
    \/ ForecastCoordinatesRaise
    \/ ForecastCoordinates
    \/ ForecastWeatherFails
    \/ ForecastWeatherResponds
    \/ ForecastUsgsFails
    \/ ForecastUsgsResponds
    \/ ForecastGdacs
    \/ ForecastReturn

SpecForecast == InitForecast /\ [][NextForecast]_vars

-----------------------------------------------------------------------------
(* Properties of calamity_forecast, under SpecForecast.                    *)

\* calamity_forecast has returned the tuple of line 102
ForecastReported ==
    pc = "done" /\ result.kind = "returned" /\ "error" \notin DOMAIN result.value

\* the field a source's outcome stands for: its marker when the request got no
\* response, what the code makes of the response otherwise
C1_Weather(response) == IF response.ok THEN WeatherData(response) ELSE WeatherFailed

C1_Earthquakes(response) ==
    IF response.ok THEN Earthquakes(city, response) ELSE UsgsUnavailable

C1_Alerts(feed) == GdacsAlerts(city, feed)

\* C1. Once geocoding has given coordinates (the weather request has been made),
\* the call ends with a report whatever each of the three sources did: all three
\* have been asked, a source that failed (no response, or a response that is not
\* what the code reads) has its marker string in its field, and the other
\* fields are what their own sources answered.
C1_IndependentDegradation ==
    pc = "done" /\ Len(calls) >= 2 =>
        /\ result.kind = "returned"
        /\ Len(calls) = 4
        /\ weather_data = C1_Weather(calls[2].response)
        /\ earthquakes = C1_Earthquakes(calls[3].response)
        /\ gdacs_alerts = C1_Alerts(calls[4].response)
        /\ result.value.weather_data = weather_data
        /\ result.value.gdacs_alerts = gdacs_alerts

\* C2. A report returned after geocoding holds city, latitude, longitude and
\* the three hazard fields, and its earthquake field is what lines 71-85
\* computed (the filtered list or the marker).
C2_ReportHasEarthquakes ==
    ForecastReported =>
        /\ {"city", "lat", "lon", "weather_data", "earthquakes", "gdacs_alerts"}
              \subseteq DOMAIN result.value
        /\ result.value.earthquakes = earthquakes

\* the geocoding response has been read
C8_GeoRead == Len(calls) >= 1 /\ calls[1].response.ok /\ pc # "geo_parse"

\* no hazard source has been asked
C8_OnlyGeo == Len(calls) = 1 /\ calls[1].to = "nominatim"

C8_ErrorOutcome(message) ==
    /\ pc = "done"
    /\ result.kind = "returned"
    /\ DOMAIN result.value = {"error"}
    /\ result.value.error = message
    /\ C8_OnlyGeo

\* float of the field key of the first candidate of the geocoding answer is x
C8_FirstIs(key, x) ==
    LET json == calls[1].response.json
    IN  /\ json.ok
        /\ json.val.t = "list"
        /\ json.val.v # <<>>
        /\ json.val.v[1].t = "dict"
        /\ HasKey(json.val.v[1], key)
        /\ FloatOf(Lookup(json.val.v[1], key)).ok
        /\ FloatOf(Lookup(json.val.v[1], key)).val = x

\* C8. A geocoding body that does not parse ends the call with the error of
\* line 43, an empty result list with the error of line 45 that names the city,
\* and in both cases only the geocoding service has been asked; the
\* coordinates sent to the weather service and those of a report are the
\* first candidate's.
C8_GeocodingOutcomes ==
    C8_GeoRead =>
        LET json == calls[1].response.json
        IN  /\ ~json.ok => C8_ErrorOutcome(GeoParseError)
            /\ json.ok /\ json.val = JList(<<>>) => C8_ErrorOutcome(LocationNotFound(city))
            /\ Len(calls) >= 2 =>
                /\ C8_FirstIs(<<"l", "a", "t">>, calls[2].request.latitude)
                /\ C8_FirstIs(<<"l", "o", "n">>, calls[2].request.longitude)
            /\ ForecastReported =>
                /\ C8_FirstIs(<<"l", "a", "t">>, result.value.lat)
                /\ C8_FirstIs(<<"l", "o", "n">>, result.value.lon)

\* a report for a geocoding answer of two candidates that differ
C8_Witness ==
    /\ ForecastReported
    /\ Len(calls[1].response.json.val.v) = 2
    /\ calls[1].response.json.val.v[1] # calls[1].response.json.val.v[2]

\* the two error outcomes are reached as well
C8_UnparseableReached == C8_GeoRead /\ ~calls[1].response.json.ok

C8_EmptyReached ==
    C8_GeoRead /\ calls[1].response.json.ok /\ calls[1].response.json.val = JList(<<>>)

====
